---- MODULE Spec2Model ----
(***************************************************************************)
(* Model of examples/async.rs: the asynchronous USB read example.          *)
(*                                                                         *)
(* Spec      the whole program: main, open_device, read_device,            *)
(*           read_endpoint, configure_endpoint, run against a driver whose *)
(*           answers are chosen nondeterministically.                      *)
(* SpecFind  find_readable_endpoint as a pure function over bounded        *)
(*           descriptor trees.                                             *)
(***************************************************************************)
EXTENDS Integers, Sequences, FiniteSets, TLC

VARIABLES
    pc,         \* position of the single thread of control
    args,       \* std::env::args(): program name followed by the positional arguments
    vid, pid,   \* Option<u16>: the parsed vendor and product id
    context,    \* Option: the libusb context main created
    devices,    \* open_device: the enumerated device list (local of open_device)
    di,         \* open_device: index of the next device of the scan (1-based)
    opens,      \* open_device: indexes of the devices of the list on which open() was called
    device,     \* Option: the (device, device_desc, handle) triple open_device returned
    endpoint,   \* Option<Endpoint>: the endpoint given to read_endpoint
    ttype,      \* transfer_type argument of read_endpoint
    searches,   \* the find_readable_endpoint calls made so far: <<type, result>>
    hcalls,     \* the calls made on the device handle: <<operation, arguments, ok>>
    bufi,       \* read_endpoint: index of the next buffer of the initial burst (1-based)
    inflight,   \* the transfers submitted to async_group and not yet returned by wait_any
    transfer,   \* Option: the transfer wait_any returned, not yet resubmitted
    submitted,  \* number of submit calls made on async_group
    reads,      \* number of completions wait_any has returned
    out,        \* standard output, one element per line
    abort,      \* "none", or the reason the process panicked
    ftree,      \* SpecFind: the descriptor tree searched
    ftype,      \* SpecFind: the transfer type requested
    fresult,    \* SpecFind: Option<Endpoint>, the result on ftree
    fvariant,   \* SpecFind: a tree that differs from ftree in endpoints of the other type only
    fvresult,   \* SpecFind: Option<Endpoint>, the result on fvariant
    fpc         \* SpecFind: "input", "found" or "compared"

progVars == <<pc, args, vid, pid, context, devices, di, opens, device, endpoint, ttype, searches,
              hcalls, bufi, inflight, transfer, submitted, reads, out, abort>>
findVars == <<ftree, ftype, fresult, fvariant, fvresult, fpc>>
vars == <<pc, args, vid, pid, context, devices, di, opens, device, endpoint, ttype, searches,
          hcalls, bufi, inflight, transfer, submitted, reads, out, abort,
          ftree, ftype, fresult, fvariant, fvresult, fpc>>

\* Option<T>: None is the empty sequence, Some(x) the one-element sequence.
None == <<>>
Some(x) == <<x>>

(***************************************************************************)
(* Bounds                                                                  *)
(***************************************************************************)
\* SpecFind: leaves of a descriptor tree (endpoints, and descriptors with nothing below them).
MaxLeaves == 3
\* Spec: leaves of the descriptor tree of the opened device.
MaxDeviceLeaves == 1
\* Spec: positional arguments on the command line.
MaxArgs == 2
\* Spec: devices the enumeration returns.
MaxDevices == 2
\* Spec: completions the transfer loop is followed for.
MaxReads == 2

(***************************************************************************)
(* Descriptor trees                                                        *)
(***************************************************************************)
\* Endpoint descriptors: direction, transfer type and address are attributes of the descriptor.
EndpointDescs ==
    { [direction |-> "In",  transfer_type |-> "Bulk",      address |-> 129],
      [direction |-> "In",  transfer_type |-> "Interrupt", address |-> 130],
      [direction |-> "Out", transfer_type |-> "Bulk",      address |-> 1],
      [direction |-> "In",  transfer_type |-> "Bulk",      address |-> 131] }

\* SeqsOf(N, top): m |-> the sequences of nodes with exactly m <= top leaves in all, N[k]
\* being the nodes with exactly k leaves. (@@ makes the function a table, computed once.)
SeqsOf(N, top) ==
    LET S[m \in 0..top] ==
            IF m = 0 THEN { <<>> }
            ELSE UNION { { <<x>> \o rest : x \in N[k], rest \in S[m - k] } : k \in 1..m }
    IN  S @@ <<>>

\* Endpoint descriptors of an alt-setting, by number of leaves.
EndpointSeqs ==
    SeqsOf([k \in 1..MaxLeaves |-> IF k = 1 THEN EndpointDescs ELSE {}], MaxLeaves)
\* Alt-setting descriptors of an interface: a setting is its endpoints, possibly none.
SettingSeqs ==
    SeqsOf([k \in 1..MaxLeaves |-> (IF k = 1 THEN { <<>> } ELSE {}) \cup EndpointSeqs[k]],
           MaxLeaves)
\* Interfaces of a configuration: an interface is its alt-settings, possibly none.
InterfaceSeqs ==
    SeqsOf([k \in 1..MaxLeaves |-> (IF k = 1 THEN { <<>> } ELSE {}) \cup SettingSeqs[k]],
           MaxLeaves)
\* A configuration: unreadable (ok = FALSE), or its interfaces, possibly none.
ConfigNodes ==
    [k \in 1..MaxLeaves |->
        (IF k = 1 THEN { [ok |-> FALSE, kids |-> <<>>], [ok |-> TRUE, kids |-> <<>>] }
                  ELSE {})
        \cup { [ok |-> TRUE, kids |-> f] : f \in InterfaceSeqs[k] }] @@ <<>>
\* The configurations that follow the first one of a device.
ConfigSeqs == SeqsOf(ConfigNodes, MaxLeaves - 1)

\* The descriptor tree a forest of configurations stands for: a sequence of configurations,
\* each unreadable (ok = FALSE) or a sequence of interfaces, each a sequence of alt-setting
\* descriptors carrying interface number, setting number and endpoint descriptors.
\* Configuration values count from 1, interface and setting numbers from 0.
TreeOf(f) ==
    [ n \in 1..Len(f) |->
        [ ok |-> f[n].ok,
          number |-> n,
          interfaces |->
            [ i \in 1..Len(f[n].kids) |->
                [ s \in 1..Len(f[n].kids[i]) |->
                    [ interface_number |-> i - 1,
                      setting_number |-> s - 1,
                      endpoints |-> f[n].kids[i][s] ] ] ] ] ]

\* tree is a descriptor tree of at most top <= MaxLeaves leaves: no configuration, or a first
\* configuration followed by others.
IsTree(tree, top) ==
    \/ tree = <<>>
    \/ \E k \in 1..top : \E j \in 1..k :
          \E x \in ConfigNodes[j] : \E rest \in ConfigSeqs[k - j] :
             tree = TreeOf(<<x>> \o rest)

TransferTypes == {"Interrupt", "Bulk"}

\* The device descriptor of a device with the given ids and descriptor tree.
DeviceDesc(vendor, product, tree) ==
    [vendor_id |-> vendor, product_id |-> product, num_configurations |-> Len(tree)]

(***************************************************************************)
(* find_readable_endpoint                                                  *)
(***************************************************************************)
\* The endpoint test that leaves out the direction.
MatchesAnyDirection(endpoint_desc, transfer_type) ==
    endpoint_desc.transfer_type = transfer_type

\* endpoint_desc.direction() == In && endpoint_desc.transfer_type() == transfer_type
Matches(endpoint_desc, transfer_type) ==
    /\ endpoint_desc.direction = "In"
    /\ endpoint_desc.transfer_type = transfer_type

\* The Endpoint value built for a matching endpoint descriptor.
MakeEndpoint(config_desc, interface_desc, endpoint_desc) ==
    [ config  |-> config_desc.number,
      iface   |-> interface_desc.interface_number,
      setting |-> interface_desc.setting_number,
      address |-> endpoint_desc.address ]

RECURSIVE ScanEndpointsAnyType(_, _, _, _)
\* The endpoint loop that returns the first inbound endpoint whatever its transfer type.
ScanEndpointsAnyType(config_desc, interface_desc, transfer_type, e) ==
    IF e > Len(interface_desc.endpoints) THEN None
    ELSE IF interface_desc.endpoints[e].direction = "In"
         THEN Some(MakeEndpoint(config_desc, interface_desc, interface_desc.endpoints[e]))
         ELSE ScanEndpointsAnyType(config_desc, interface_desc, transfer_type, e + 1)

RECURSIVE ScanEndpoints(_, _, _, _)
\* for endpoint_desc in interface_desc.endpoint_descriptors(), from the e-th on
ScanEndpoints(config_desc, interface_desc, transfer_type, e) ==
    IF e > Len(interface_desc.endpoints) THEN None
    ELSE IF Matches(interface_desc.endpoints[e], transfer_type)
         THEN Some(MakeEndpoint(config_desc, interface_desc, interface_desc.endpoints[e]))
         ELSE ScanEndpoints(config_desc, interface_desc, transfer_type, e + 1)

RECURSIVE ScanSettings(_, _, _, _)
\* for interface_desc in interface.descriptors(), from the s-th on
ScanSettings(config_desc, interface, transfer_type, s) ==
    IF s > Len(interface) THEN None
    ELSE LET r == ScanEndpoints(config_desc, interface[s], transfer_type, 1)
         IN  IF r # None THEN r
             ELSE ScanSettings(config_desc, interface, transfer_type, s + 1)

RECURSIVE ScanInterfaces(_, _, _)
\* for interface in config_desc.interfaces(), from the i-th on
ScanInterfaces(config_desc, transfer_type, i) ==
    IF i > Len(config_desc.interfaces) THEN None
    ELSE LET r == ScanSettings(config_desc, config_desc.interfaces[i], transfer_type, 1)
         IN  IF r # None THEN r
             ELSE ScanInterfaces(config_desc, transfer_type, i + 1)

RECURSIVE ScanConfigs(_, _, _, _)
\* for n in 0..device_desc.num_configurations(), from index n on;
\* device.config_descriptor(n) is dev[n + 1], an Err when its ok is FALSE.
ScanConfigs(dev, device_desc, transfer_type, n) ==
    IF n >= device_desc.num_configurations THEN None
    ELSE IF ~dev[n + 1].ok
         THEN ScanConfigs(dev, device_desc, transfer_type, n + 1)
         ELSE LET r == ScanInterfaces(dev[n + 1], transfer_type, 1)
              IN  IF r # None THEN r
                  ELSE ScanConfigs(dev, device_desc, transfer_type, n + 1)

find_readable_endpoint(dev, device_desc, transfer_type) ==
    ScanConfigs(dev, device_desc, transfer_type, 0)

(***************************************************************************)
(* SpecFind: find_readable_endpoint over every bounded descriptor tree     *)
(***************************************************************************)
\* Positions <<n, i, s, e>> (1-based) of the endpoint descriptors of readable configurations.
EndpointPositions(tree) ==
    UNION { UNION { UNION { { <<n, i, s, e>> : e \in 1..Len(tree[n].interfaces[i][s].endpoints) } :
                            s \in 1..Len(tree[n].interfaces[i]) } :
                    i \in 1..Len(tree[n].interfaces) } :
            n \in { m \in 1..Len(tree) : tree[m].ok } }

EndpointDescAt(tree, p) == tree[p[1]].interfaces[p[2]][p[3]].endpoints[p[4]]

RECURSIVE KeepAt(_, _, _)
\* The subsequence of seq at the indexes of K from the j-th on, in order.
KeepAt(seq, K, j) ==
    IF j > Len(seq) THEN <<>>
    ELSE (IF j \in K THEN <<seq[j]>> ELSE <<>>) \o KeepAt(seq, K, j + 1)

\* tree without the endpoint descriptors at the positions of D.
Without(tree, D) ==
    [ n \in 1..Len(tree) |->
        [ tree[n] EXCEPT !.interfaces =
            [ i \in 1..Len(tree[n].interfaces) |->
                [ s \in 1..Len(tree[n].interfaces[i]) |->
                    [ tree[n].interfaces[i][s] EXCEPT !.endpoints =
                        KeepAt(@, { e \in 1..Len(@) : <<n, i, s, e>> \notin D }, 1) ] ] ] ] ]

OtherType(transfer_type) == IF transfer_type = "Bulk" THEN "Interrupt" ELSE "Bulk"

\* The trees that have the endpoints of tree except some of the other transfer type.
Variants(tree, transfer_type) ==
    { Without(tree, D) :
        D \in SUBSET { p \in EndpointPositions(tree) :
                         EndpointDescAt(tree, p).transfer_type = OtherType(transfer_type) } }

Idle ==
    /\ pc = "idle" /\ args = <<>> /\ vid = None /\ pid = None /\ context = None
    /\ devices = <<>> /\ di = 0 /\ opens = {} /\ device = None
    /\ endpoint = None /\ ttype = "none" /\ searches = <<>> /\ hcalls = <<>>
    /\ bufi = 0 /\ inflight = {} /\ transfer = None /\ submitted = 0
    /\ reads = 0 /\ out = <<>> /\ abort = "none"

FindInit ==
    /\ Idle
    /\ IsTree(ftree, MaxLeaves)
    /\ ftype \in TransferTypes
    /\ fresult = None /\ fvariant = <<>> /\ fvresult = None
    /\ fpc = "input"

\* The search of read_device for one transfer type.
FindSearch ==
    /\ fpc = "input"
    /\ fresult' = find_readable_endpoint(ftree, DeviceDesc(0, 0, ftree), ftype)
    /\ fpc' = "found"
    /\ UNCHANGED <<ftree, ftype, fvariant, fvresult>>
    /\ UNCHANGED progVars

\* The same search on a device that differs in endpoints of the other transfer type.
FindVariant ==
    /\ fpc = "found"
    /\ \E v \in Variants(ftree, ftype) :
          /\ fvariant' = v
          /\ fvresult' = find_readable_endpoint(v, DeviceDesc(0, 0, v), ftype)
    /\ fpc' = "compared"
    /\ UNCHANGED <<ftree, ftype, fresult>>
    /\ UNCHANGED progVars

FindNext == FindSearch \/ FindVariant

SpecFind == FindInit /\ [][FindNext]_vars

\* Positions of the inbound endpoint descriptors of the requested type.
MatchPositions(tree, transfer_type) ==
    { p \in EndpointPositions(tree) :
        /\ EndpointDescAt(tree, p).direction = "In"
        /\ EndpointDescAt(tree, p).transfer_type = transfer_type }

\* p comes no later than q in configuration -> interface -> alt-setting -> endpoint order.
LexLeq(p, q) ==
    \/ p[1] < q[1]
    \/ p[1] = q[1] /\ p[2] < q[2]
    \/ p[1] = q[1] /\ p[2] = q[2] /\ p[3] < q[3]
    \/ p[1] = q[1] /\ p[2] = q[2] /\ p[3] = q[3] /\ p[4] <= q[4]

FirstPosition(P) == CHOOSE p \in P : \A q \in P : LexLeq(p, q)

\* The (configuration, interface, alt-setting, endpoint) tuple of the descriptor at p.
TupleAt(tree, p) ==
    [ config  |-> tree[p[1]].number,
      iface   |-> tree[p[1]].interfaces[p[2]][p[3]].interface_number,
      setting |-> tree[p[1]].interfaces[p[2]][p[3]].setting_number,
      address |-> EndpointDescAt(tree, p).address ]

\* C2: find_readable_endpoint returns the first tuple, in configuration -> interface ->
\* alt-setting -> endpoint traversal order, among the inbound endpoints of the requested type
\* in readable configurations, and none exactly when there is no such endpoint.
C2_FirstMatch ==
    fpc # "input" =>
        LET P == MatchPositions(ftree, ftype)
        IN  IF P = {} THEN fresult = None
            ELSE fresult = Some(TupleAt(ftree, FirstPosition(P)))

\* C2 witness: a search that skipped an unreadable configuration and chose between two
\* matching endpoints.
C2_Witness ==
    /\ fpc = "found"
    /\ \E n \in 1..Len(ftree) : ~ftree[n].ok
    /\ Cardinality(MatchPositions(ftree, ftype)) >= 1
    /\ fresult # None

\* C3: the result of the search for one transfer type is the same on two trees that differ
\* only in endpoints of the other transfer type.
C3_Independent ==
    fpc = "compared" => fvresult = fresult

\* C3 witness: two different trees, one with and one without an inbound endpoint of the other
\* type ahead of the endpoint found.
C3_Witness ==
    /\ fpc = "compared"
    /\ fvariant # ftree
    /\ fresult # None
    /\ \E p \in EndpointPositions(ftree) :
          /\ EndpointDescAt(ftree, p).direction = "In"
          /\ EndpointDescAt(ftree, p).transfer_type = OtherType(ftype)

(***************************************************************************)
(* Spec: the program                                                       *)
(***************************************************************************)
\* let mut buffers = [[0u8; 64]; 8]
NumBuffers == 8
BufferSize == 64
\* Duration::from_secs(1)
TimeoutSecs == 1
\* u16::MAX, vid and pid being u16
U16Max == 65535

\* Strings are sequences of characters.
ProgramName == <<"a", "s", "y", "n", "c">>
Hex1234 == <<"0", "x", "1", "2", "3", "4">>
Hex5678 == <<"0", "x", "5", "6", "7", "8">>
Dec4660 == <<"4", "6", "6", "0">>
Dec22136 == <<"2", "2", "1", "3", "6">>
Dec65536 == <<"6", "5", "5", "3", "6">>
ArgStrings == { Hex1234, Hex5678, Dec4660, Dec22136, Dec65536 }

\* std::env::args(): the program name, then up to MaxArgs positional arguments.
ArgVectors ==
    { <<ProgramName>> \o a : a \in UNION { [1..n -> ArgStrings] : n \in 0..MaxArgs } }

DigitValue(c) ==
    CASE c = "0" -> 0 [] c = "1" -> 1 [] c = "2" -> 2 [] c = "3" -> 3 [] c = "4" -> 4
      [] c = "5" -> 5 [] c = "6" -> 6 [] c = "7" -> 7 [] c = "8" -> 8 [] c = "9" -> 9
      [] OTHER -> -1

RECURSIVE ParseDigits(_, _)
\* Accumulates decimal digits; None on a character that is no digit and on overflow of u16.
ParseDigits(digits, acc) ==
    IF digits = <<>> THEN Some(acc)
    ELSE IF DigitValue(Head(digits)) < 0 THEN None
    ELSE IF acc * 10 + DigitValue(Head(digits)) > U16Max THEN None
    ELSE ParseDigits(Tail(digits), acc * 10 + DigitValue(Head(digits)))

\* <u16 as FromStr>::from_str: radix 10, an optional leading "+", at least one digit.
\* Some(value) for Ok, None for Err.
from_str(str) ==
    IF str = <<>> THEN None
    ELSE LET digits == IF Head(str) = "+" THEN Tail(str) ELSE str
         IN  IF digits = <<>> THEN None ELSE ParseDigits(digits, 0)

\* args.len() < 2
TooFewArgsOffByOne(a) == Len(a) < 2

\* args.len() < 3
TooFewArgs(a) == Len(a) < 3

UsageLine == <<"usage: async <vendor-id> <product-id>">>
NotFoundLine(v, p) == <<"could not find device", v, p>>
NoInterruptLine == <<"No readable interrupt endpoint">>
NoBulkLine == <<"No readable bulk endpoint">>
ReadingLine(ep) == <<"Reading from endpoint:", ep>>
ReadLine(status, actual) == <<"Read:", status, actual>>

\* The devices the driver can enumerate: whether the descriptor can be read, the ids of the
\* descriptor, whether open() succeeds.
DeviceValues ==
    [ desc_ok : BOOLEAN, vendor_id : {4660}, product_id : {22136, 1}, open_ok : BOOLEAN ]
\* The descriptor trees of the device open_device returns: at most MaxDeviceLeaves leaves.
DeviceTrees ==
    { <<>> } \cup
    UNION { UNION { { TreeOf(<<x>> \o rest) : x \in ConfigNodes[j], rest \in ConfigSeqs[k - j] } :
                    j \in 1..k } :
            k \in 1..MaxDeviceLeaves }

DeviceLists == UNION { [1..n -> DeviceValues] : n \in 0..MaxDevices }

Init ==
    /\ pc = "main"
    /\ args \in ArgVectors
    /\ vid = None /\ pid = None /\ context = None
    /\ devices = <<>> /\ di = 0 /\ opens = {} /\ device = None
    /\ endpoint = None /\ ttype = "none" /\ searches = <<>> /\ hcalls = <<>>
    /\ bufi = 0 /\ inflight = {} /\ transfer = None /\ submitted = 0
    /\ reads = 0 /\ out = <<>> /\ abort = "none"
    /\ ftree = <<>> /\ ftype = "none" /\ fresult = None
    /\ fvariant = <<>> /\ fvresult = None /\ fpc = "off"

\* A panic: the process aborts where it is.
Panic(reason) == pc' = "panic" /\ abort' = reason

\* main: fewer than two positional arguments print the usage line and return.
Main_Usage ==
    /\ pc = "main"
    /\ TooFewArgs(args)
    /\ out' = Append(out, UsageLine)
    /\ pc' = "exit"
    /\ UNCHANGED <<args, vid, pid, context, devices, di, opens, device, endpoint, ttype,
                   searches, hcalls, bufi, inflight, transfer, submitted, reads, abort>>
    /\ UNCHANGED findVars

\* main: vid and pid are parsed from args[1] and args[2] (here args[2] and args[3]); indexing
\* past the end of args and unwrap of a parse error panic.
Main_ParseArgs ==
    /\ pc = "main"
    /\ ~TooFewArgs(args)
    /\ IF Len(args) < 2
       THEN Panic("index") /\ UNCHANGED <<vid, pid>>
       ELSE IF from_str(args[2]) = None
       THEN Panic("parse") /\ UNCHANGED <<vid, pid>>
       ELSE IF Len(args) < 3
       THEN Panic("index") /\ vid' = from_str(args[2]) /\ UNCHANGED pid
       ELSE IF from_str(args[3]) = None
       THEN Panic("parse") /\ vid' = from_str(args[2]) /\ UNCHANGED pid
       ELSE /\ vid' = from_str(args[2])
            /\ pid' = from_str(args[3])
            /\ pc' = "context"
            /\ UNCHANGED abort
    /\ UNCHANGED <<args, context, devices, di, opens, device, endpoint, ttype,
                   searches, hcalls, bufi, inflight, transfer, submitted, reads, out>>
    /\ UNCHANGED findVars

\* main: Context::new(); an Err panics.
Main_NewContext ==
    /\ pc = "context"
    /\ \E ok \in BOOLEAN :
          IF ok THEN context' = Some("context") /\ pc' = "open_device" /\ UNCHANGED abort
                ELSE Panic("could not initialize libusb") /\ UNCHANGED context
    /\ UNCHANGED <<args, vid, pid, devices, di, opens, device, endpoint, ttype,
                   searches, hcalls, bufi, inflight, transfer, submitted, reads, out>>
    /\ UNCHANGED findVars

\* open_device: context.devices(); an Err returns None.
OpenDevice_Enumerate ==
    /\ pc = "open_device"
    /\ \/ /\ pc' = "not_found"
          /\ UNCHANGED <<devices, di>>
       \/ \E list \in DeviceLists :
             /\ devices' = list
             /\ di' = 1
             /\ pc' = "scan"
    /\ UNCHANGED <<args, vid, pid, context, opens, device, endpoint, ttype,
                   searches, hcalls, bufi, inflight, transfer, submitted, reads, out, abort>>
    /\ UNCHANGED findVars

\* device_desc.vendor_id() == vid || device_desc.product_id() == pid
IdMatchesEither(d, v, p) == d.vendor_id = v \/ d.product_id = p

\* device_desc.vendor_id() == vid && device_desc.product_id() == pid
IdMatches(d, v, p) == d.vendor_id = v /\ d.product_id = p

\* The loop body of open_device where a failed open ends the search.
ScanOutcomeOpenErrReturns(d, v, p) ==
    IF ~d.desc_ok THEN [open |-> FALSE, then |-> "continue"]
    ELSE IF IdMatches(d, v, p)
         THEN IF d.open_ok THEN [open |-> TRUE, then |-> "return_some"]
                           ELSE [open |-> TRUE, then |-> "return_none"]
         ELSE [open |-> FALSE, then |-> "continue"]

\* The loop body of open_device for device d: whether open() is called, and what follows.
ScanOutcome(d, v, p) ==
    IF ~d.desc_ok THEN [open |-> FALSE, then |-> "continue"]
    ELSE IF IdMatches(d, v, p)
         THEN IF d.open_ok THEN [open |-> TRUE, then |-> "return_some"]
                           ELSE [open |-> TRUE, then |-> "continue"]
         ELSE [open |-> FALSE, then |-> "continue"]

\* open_device: one iteration of for device in devices.iter(), or the None after the loop.
\* Returning Some drops the device list; the descriptors of the returned device are those of
\* some descriptor tree.
OpenDevice_Scan ==
    /\ pc = "scan"
    /\ IF di > Len(devices)
       THEN /\ pc' = "not_found"
            /\ UNCHANGED <<devices, di, opens, device>>
       ELSE LET o == ScanOutcome(devices[di], vid[1], pid[1])
            IN  CASE o.then = "continue" ->
                       /\ di' = di + 1
                       /\ opens' = IF o.open THEN opens \cup {di} ELSE opens
                       /\ pc' = "scan"
                       /\ UNCHANGED <<devices, device>>
                  [] o.then = "return_none" ->
                       /\ opens' = IF o.open THEN opens \cup {di} ELSE opens
                       /\ pc' = "not_found"
                       /\ UNCHANGED <<devices, di, device>>
                  [] o.then = "return_some" ->
                       /\ \E tree \in DeviceTrees :
                             device' = Some([ desc |-> DeviceDesc(devices[di].vendor_id,
                                                                  devices[di].product_id, tree),
                                              tree |-> tree ])
                       /\ devices' = <<>> /\ di' = 0 /\ opens' = {}
                       /\ pc' = "read_device"
    /\ UNCHANGED <<args, vid, pid, context, endpoint, ttype,
                   searches, hcalls, bufi, inflight, transfer, submitted, reads, out, abort>>
    /\ UNCHANGED findVars

\* main: open_device returned None.
Main_NotFound ==
    /\ pc = "not_found"
    /\ out' = Append(out, NotFoundLine(vid[1], pid[1]))
    /\ pc' = "exit"
    /\ UNCHANGED <<args, vid, pid, context, devices, di, opens, device, endpoint, ttype,
                   searches, hcalls, bufi, inflight, transfer, submitted, reads, abort>>
    /\ UNCHANGED findVars

\* What read_device does after the interrupt search when it goes on whatever the result.
AfterInterruptSearchAlwaysOn(r) == "find_bulk"

\* match find_readable_endpoint(.., Interrupt): Some calls read_endpoint, None goes on to
\* the bulk search.
AfterInterruptSearch(r) == IF r = None THEN "find_bulk" ELSE "read_endpoint"

\* read_device: the interrupt search and its match.
ReadDevice_FindInterrupt ==
    /\ pc = "read_device"
    /\ LET r == find_readable_endpoint(device[1].tree, device[1].desc, "Interrupt")
       IN  /\ searches' = Append(searches, <<"Interrupt", r>>)
           /\ pc' = AfterInterruptSearch(r)
           /\ IF r = None
              THEN /\ out' = Append(out, NoInterruptLine)
                   /\ UNCHANGED <<endpoint, ttype>>
              ELSE /\ endpoint' = r
                   /\ ttype' = "Interrupt"
                   /\ UNCHANGED out
    /\ UNCHANGED <<args, vid, pid, context, devices, di, opens, device,
                   hcalls, bufi, inflight, transfer, submitted, reads, abort>>
    /\ UNCHANGED findVars

\* read_device: the bulk search and its match.
ReadDevice_FindBulk ==
    /\ pc = "find_bulk"
    /\ LET r == find_readable_endpoint(device[1].tree, device[1].desc, "Bulk")
       IN  /\ searches' = Append(searches, <<"Bulk", r>>)
           /\ IF r = None
              THEN /\ out' = Append(out, NoBulkLine)
                   /\ pc' = "return_ok"
                   /\ UNCHANGED <<endpoint, ttype>>
              ELSE /\ endpoint' = r
                   /\ ttype' = "Bulk"
                   /\ pc' = "read_endpoint"
                   /\ UNCHANGED out
    /\ UNCHANGED <<args, vid, pid, context, devices, di, opens, device,
                   hcalls, bufi, inflight, transfer, submitted, reads, abort>>
    /\ UNCHANGED findVars

\* read_device returns Ok(()), which main unwraps.
ReadDevice_ReturnOk ==
    /\ pc = "return_ok"
    /\ pc' = "exit"
    /\ UNCHANGED <<args, vid, pid, context, devices, di, opens, device, endpoint, ttype,
                   searches, hcalls, bufi, inflight, transfer, submitted, reads, out, abort>>
    /\ UNCHANGED findVars

\* read_endpoint: println!("Reading from endpoint: {:?}", endpoint)
ReadEndpoint_Print ==
    /\ pc = "read_endpoint"
    /\ out' = Append(out, ReadingLine(endpoint[1]))
    /\ pc' = "auto_detach"
    /\ UNCHANGED <<args, vid, pid, context, devices, di, opens, device, endpoint, ttype,
                   searches, hcalls, bufi, inflight, transfer, submitted, reads, abort>>
    /\ UNCHANGED findVars

\* One call on the device handle, as recorded in hcalls.
HandleCall(op, arguments, ok) == [op |-> op, arguments |-> arguments, ok |-> ok]

\* configure_endpoint: handle.set_auto_detach_kernel_driver(true).unwrap()
Configure_AutoDetach ==
    /\ pc = "auto_detach"
    /\ \E ok \in BOOLEAN :
          /\ hcalls' = Append(hcalls, HandleCall("set_auto_detach_kernel_driver", <<TRUE>>, ok))
          /\ IF ok THEN pc' = "claim" /\ UNCHANGED abort
                   ELSE Panic("set_auto_detach_kernel_driver")
    /\ UNCHANGED <<args, vid, pid, context, devices, di, opens, device, endpoint, ttype,
                   searches, bufi, inflight, transfer, submitted, reads, out>>
    /\ UNCHANGED findVars

\* configure_endpoint going on with set_alternate_setting whatever claim_interface returned.
AfterClaimIgnoresErr(ok) == "set_alt"

\* handle.claim_interface(endpoint.iface)?: an Err is returned to read_endpoint, whose
\* unwrap panics.
AfterClaim(ok) == IF ok THEN "set_alt" ELSE "panic"

\* configure_endpoint: handle.claim_interface(endpoint.iface)?
Configure_Claim ==
    /\ pc = "claim"
    /\ \E ok \in BOOLEAN :
          /\ hcalls' = Append(hcalls, HandleCall("claim_interface", <<endpoint[1].iface>>, ok))
          /\ pc' = AfterClaim(ok)
          /\ abort' = IF AfterClaim(ok) = "panic" THEN "claim_interface" ELSE abort
    /\ UNCHANGED <<args, vid, pid, context, devices, di, opens, device, endpoint, ttype,
                   searches, bufi, inflight, transfer, submitted, reads, out>>
    /\ UNCHANGED findVars

\* configure_endpoint: handle.set_alternate_setting(endpoint.iface, endpoint.setting)?,
\* then Ok(()) and the buffers and the async group of read_endpoint.
Configure_SetAlt ==
    /\ pc = "set_alt"
    /\ \E ok \in BOOLEAN :
          /\ hcalls' = Append(hcalls, HandleCall("set_alternate_setting",
                                                 <<endpoint[1].iface, endpoint[1].setting>>, ok))
          /\ IF ok THEN pc' = "burst" /\ bufi' = 1 /\ UNCHANGED abort
                   ELSE Panic("set_alternate_setting") /\ UNCHANGED bufi
    /\ UNCHANGED <<args, vid, pid, context, devices, di, opens, device, endpoint, ttype,
                   searches, inflight, transfer, submitted, reads, out>>
    /\ UNCHANGED findVars

\* Transfer::interrupt / Transfer::bulk (handle, endpoint.address, buf, timeout)
NewTransfer(transfer_type, address, buf) ==
    [kind |-> transfer_type, endpoint |-> address, buffer |-> buf, timeout |-> TimeoutSecs]

\* AsyncGroup::submit: the transfer joins the pending set.
AsyncSubmit(group, t) == group \cup {t}

\* AsyncGroup::wait_any: the completions the driver can report, each a member of the pending
\* set, taken out of it, with a status and an actual length.
CompletionStatuses == {"Completed", "TimedOut"}
AsyncWaitAny(group) ==
    { [t |-> t, status |-> st, actual |-> n] :
        t \in group, st \in CompletionStatuses, n \in {0, BufferSize} }

\* The initial burst ending one buffer early.
BurstDoneEarly(i) == i >= NumBuffers

\* for buf in &mut buffers: the loop is over after the last buffer.
BurstDone(i) == i > NumBuffers

\* read_endpoint: one iteration of the initial burst, submit(..).unwrap().
ReadEndpoint_SubmitBurst ==
    /\ pc = "burst"
    /\ \E ok \in BOOLEAN :
          IF ok
          THEN /\ inflight' = AsyncSubmit(inflight, NewTransfer(ttype, endpoint[1].address, bufi))
               /\ submitted' = submitted + 1
               /\ bufi' = bufi + 1
               /\ pc' = IF BurstDone(bufi + 1) THEN "wait_any" ELSE "burst"
               /\ UNCHANGED abort
          ELSE /\ Panic("submit")
               /\ submitted' = submitted + 1
               /\ UNCHANGED <<inflight, bufi>>
    /\ UNCHANGED <<args, vid, pid, context, devices, di, opens, device, endpoint, ttype,
                   searches, hcalls, transfer, reads, out>>
    /\ UNCHANGED findVars

\* read_endpoint: let mut transfer = async_group.wait_any().unwrap(); println!("Read: ..")
ReadEndpoint_WaitAny ==
    /\ pc = "wait_any"
    /\ reads < MaxReads
    /\ \/ \E c \in AsyncWaitAny(inflight) :
             /\ transfer' = Some(c)
             /\ inflight' = inflight \ {c.t}
             /\ out' = Append(out, ReadLine(c.status, c.actual))
             /\ reads' = reads + 1
             /\ pc' = "resubmit"
             /\ UNCHANGED abort
       \/ /\ Panic("wait_any")
          /\ UNCHANGED <<transfer, inflight, out, reads>>
    /\ UNCHANGED <<args, vid, pid, context, devices, di, opens, device, endpoint, ttype,
                   searches, hcalls, bufi, submitted>>
    /\ UNCHANGED findVars

\* The resubmission that leaves out a transfer that timed out.
ResubmitUnlessTimedOut(group, completed) ==
    IF completed.status = "TimedOut" THEN group ELSE AsyncSubmit(group, completed.t)

\* async_group.submit(transfer): the transfer wait_any returned goes back as it is.
Resubmit(group, completed) == AsyncSubmit(group, completed.t)

\* read_endpoint: async_group.submit(transfer).unwrap(), and back to the head of the loop.
ReadEndpoint_Resubmit ==
    /\ pc = "resubmit"
    /\ \E ok \in BOOLEAN :
          IF ok
          THEN /\ inflight' = Resubmit(inflight, transfer[1])
               /\ transfer' = None
               /\ submitted' = submitted + 1
               /\ pc' = "wait_any"
               /\ UNCHANGED abort
          ELSE /\ Panic("submit")
               /\ transfer' = None
               /\ submitted' = submitted + 1
               /\ UNCHANGED inflight
    /\ UNCHANGED <<args, vid, pid, context, devices, di, opens, device, endpoint, ttype,
                   searches, hcalls, bufi, reads, out>>
    /\ UNCHANGED findVars

Next ==
    \/ Main_Usage
    \/ Main_ParseArgs
    \/ Main_NewContext
    \/ OpenDevice_Enumerate
    \/ OpenDevice_Scan
    \/ Main_NotFound
    \/ ReadDevice_FindInterrupt
    \/ ReadDevice_FindBulk
    \/ ReadDevice_ReturnOk
    \/ ReadEndpoint_Print
    \/ Configure_AutoDetach
    \/ Configure_Claim
    \/ Configure_SetAlt
    \/ ReadEndpoint_SubmitBurst
    \/ ReadEndpoint_WaitAny
    \/ ReadEndpoint_Resubmit

Spec == Init /\ [][Next]_vars

(***************************************************************************)
(* Properties of Spec                                                      *)
(***************************************************************************)
\* The initial burst of read_endpoint is over.
BurstOver == pc \in {"wait_any", "resubmit"} \/ (pc = "panic" /\ bufi > NumBuffers)

\* C1: after the initial burst 8 transfers are outstanding wherever the loop calls wait_any,
\* 7 between a completion and its resubmission, never more than 8 nor fewer than 7, and every
\* completion is followed by exactly one submit before the next wait_any.
C1_Outstanding ==
    /\ Cardinality(inflight) <= 8
    /\ pc = "wait_any" => Cardinality(inflight) = 8 /\ submitted = 8 + reads
    /\ pc = "resubmit" => Cardinality(inflight) = 7 /\ submitted = 8 + reads - 1
    /\ BurstOver => Cardinality(inflight) \in {7, 8}

\* C1 witness: the loop is back at wait_any after two completions.
C1_Witness == pc = "wait_any" /\ reads >= 2 /\ Cardinality(inflight) = 8

\* No device of the list has a readable descriptor with the ids (v, p).
NoMatch(devs, v, p) ==
    \A i \in 1..Len(devs) :
        ~(devs[i].desc_ok /\ devs[i].vendor_id = v /\ devs[i].product_id = p)

\* C4: when no enumerated device has a descriptor matching (vid, pid), open_device opens no
\* device and returns not-found, and the program prints the not-found line and does nothing
\* else: no endpoint search, no interface claim, no transfer submission.
C4_NotFound ==
    (context # None /\ device = None /\ pc # "open_device" /\ NoMatch(devices, vid[1], pid[1])) =>
        /\ pc \in {"scan", "not_found", "exit"}
        /\ opens = {}
        /\ searches = <<>> /\ endpoint = None /\ hcalls = <<>>
        /\ submitted = 0 /\ inflight = {}
        /\ abort = "none"
        /\ pc = "exit" => out = <<NotFoundLine(vid[1], pid[1])>>
        /\ pc # "exit" => out = <<>>

\* C4 witness: the program has ended after a scan of devices none of which matches, one of
\* them having the vendor id alone.
C4_Witness ==
    /\ pc = "exit" /\ context # None /\ device = None
    /\ Len(devices) >= 2
    /\ NoMatch(devices, vid[1], pid[1])
    /\ \E i \in 1..Len(devices) : devices[i].desc_ok /\ devices[i].vendor_id = vid[1]

\* C5: whatever the status of the completion wait_any returned, the resubmission puts that
\* very transfer (same buffer, endpoint, one-second timeout and type) back among the
\* outstanding ones, with one submit.
C5_ResubmitAnyStatus ==
    [][ (pc = "resubmit" /\ pc' = "wait_any") =>
            /\ transfer[1].t = NewTransfer(ttype, endpoint[1].address, transfer[1].t.buffer)
            /\ transfer[1].t.timeout = 1
            /\ transfer[1].t \notin inflight
            /\ inflight' = inflight \cup {transfer[1].t}
            /\ submitted' = submitted + 1 ]_vars

\* C5 witness: a transfer that timed out is outstanding again.
C5_Witness ==
    /\ pc = "wait_any" /\ reads >= 1
    /\ out[Len(out)][1] = "Read:" /\ out[Len(out)][2] = "TimedOut"
    /\ Cardinality(inflight) = 8

\* The descriptor tree of the scenario: one configuration, interface and alt-setting with one
\* inbound bulk endpoint at address 0x81.
ScenarioTree ==
    << [ ok |-> TRUE, number |-> 1,
         interfaces |->
           << << [ interface_number |-> 0, setting_number |-> 0,
                   endpoints |-> << [direction |-> "In", transfer_type |-> "Bulk",
                                     address |-> 129] >> ] >> >> ] >>

\* The driver of the scenario: one matching device that opens, with ScenarioTree, and no
\* call that fails.
ScenarioDriver ==
    /\ devices \in { <<>>, << [desc_ok |-> TRUE, vendor_id |-> 4660, product_id |-> 22136,
                              open_ok |-> TRUE] >> }
    /\ pc # "not_found"
    /\ device # None => device[1].tree = ScenarioTree
    /\ abort \in {"none", "parse", "index"}

\* C6: run with the arguments 0x1234 and 0x5678 against the driver of the scenario, the
\* program parses them to 0x1234 and 0x5678, neither ends nor panics, and prints "No readable
\* interrupt endpoint", the bulk endpoint, then only "Read:" lines.
C6_EndToEndHex ==
    (args = <<ProgramName, Hex1234, Hex5678>> /\ pc # "main" /\ ScenarioDriver) =>
        /\ vid = Some(4660) /\ pid = Some(22136)
        /\ pc \notin {"panic", "exit"}
        /\ \A k \in 1..Len(out) :
              IF k = 1 THEN out[k] = NoInterruptLine
              ELSE IF k = 2
              THEN out[k] = ReadingLine([config |-> 1, iface |-> 0, setting |-> 0,
                                         address |-> 129])
              ELSE out[k][1] = "Read:"

\* C7: with fewer than two positional arguments the program prints the usage line only and
\* exits normally: nothing is parsed, no context is created, no device is accessed.
C7_Usage ==
    (Len(args) - 1 < 2 /\ pc # "main") =>
        /\ pc = "exit" /\ abort = "none"
        /\ out = <<UsageLine>>
        /\ vid = None /\ pid = None
        /\ context = None
        /\ devices = <<>> /\ opens = {} /\ device = None
        /\ searches = <<>> /\ hcalls = <<>>
        /\ submitted = 0 /\ inflight = {}

\* C7 witness: the program has ended after a run with exactly one positional argument.
C7_Witness == Len(args) = 2 /\ pc = "exit"

\* Indexes of the devices whose descriptor can be read, whose ids are (v, p) and whose open
\* succeeds.
Openable(devs, v, p) ==
    { i \in 1..Len(devs) :
        devs[i].desc_ok /\ devs[i].vendor_id = v /\ devs[i].product_id = p /\ devs[i].open_ok }

\* C8: open_device returns the first device, in enumeration order, whose descriptor can be
\* read, whose ids are (vid, pid) and whose open succeeds; a device is skipped otherwise and
\* the scan goes on with the next one; the result is no-match when the enumeration fails or
\* no device satisfies the three conditions; open() is called only on devices whose ids match.
C8_FirstOpenable ==
    [][ /\ (pc = "open_device" /\ pc' = "not_found") => device' = None /\ opens' = {}
        /\ (pc = "scan" /\ pc' = "read_device") =>
              /\ di \in Openable(devices, vid[1], pid[1])
              /\ \A i \in Openable(devices, vid[1], pid[1]) : di <= i
              /\ device' # None
              /\ device'[1].desc.vendor_id = vid[1]
              /\ device'[1].desc.product_id = pid[1]
        /\ (pc = "scan" /\ pc' = "not_found") =>
              /\ Openable(devices, vid[1], pid[1]) = {}
              /\ di = Len(devices) + 1
              /\ device' = None
        /\ (pc = "scan" /\ pc' = "scan") => di' = di + 1 /\ devices' = devices
        /\ pc = "scan" =>
              \A i \in opens' \ opens :
                  /\ i = di
                  /\ devices[i].desc_ok
                  /\ devices[i].vendor_id = vid[1] /\ devices[i].product_id = pid[1] ]_vars

\* C8 witness: the scan has skipped a first, matching device whose open failed and is at a
\* second device that it will return.
C8_Witness ==
    /\ pc = "scan" /\ di = 2 /\ opens = {1}
    /\ 2 \in Openable(devices, vid[1], pid[1])

\* C9: the calls on the handle are, in this order, enable auto-detach, claim the endpoint's
\* interface, set the endpoint's alternate setting on it, and nothing else (the active
\* configuration is never set); a failed call aborts the program, so no later call follows
\* it, and no transfer is submitted unless the three calls succeeded.
C9_ConfigureOrder ==
    /\ Len(hcalls) <= 3
    /\ hcalls # <<>> => endpoint # None
    /\ \A k \in 1..Len(hcalls) :
          /\ k = 1 => hcalls[k].op = "set_auto_detach_kernel_driver"
                      /\ hcalls[k].arguments = <<TRUE>>
          /\ k = 2 => hcalls[k].op = "claim_interface"
                      /\ hcalls[k].arguments = <<endpoint[1].iface>>
          /\ k = 3 => hcalls[k].op = "set_alternate_setting"
                      /\ hcalls[k].arguments = <<endpoint[1].iface, endpoint[1].setting>>
          /\ k < Len(hcalls) => hcalls[k].ok
          /\ ~hcalls[k].ok => pc = "panic" /\ submitted = 0
    /\ (submitted > 0 \/ inflight # {}) =>
          Len(hcalls) = 3 /\ \A k \in 1..3 : hcalls[k].ok

\* C9 witness: transfers are outstanding after the three calls succeeded.
C9_Witness ==
    /\ inflight # {} /\ submitted >= 1
    /\ Len(hcalls) = 3 /\ hcalls[3].ok

\* Positions of the program inside read_endpoint.
InReadEndpoint ==
    pc \in {"read_endpoint", "auto_detach", "claim", "set_alt", "burst", "wait_any",
            "resubmit", "panic"}

====
